---- MODULE Spec2Model ----
(***************************************************************************)
(* Crowd-management backend (backend/server.js, models/Zone.js): the       *)
(* simulate -> cluster -> classify -> persist -> broadcast pipeline, the   *)
(* MongoDB-backed time-series store and its REST queries, and the          *)
(* Socket.IO fan-out.                                                      *)
(*                                                                         *)
(* JavaScript numbers are IEEE-754 doubles.  The classifier divides two    *)
(* integers and multiplies by 100 and by 120, so the model carries a       *)
(* double as a 53-bit significand (a sequence of bits, most significant    *)
(* first) and the exponent of its leading bit, and rounds to nearest-even  *)
(* after every operation, as the hardware does.                            *)
(***************************************************************************)
EXTENDS Integers, Sequences, FiniteSets, TLC

(***************************************************************************)
(* IEEE-754 double arithmetic on the values the classifier meets           *)
(***************************************************************************)

\* Width of a double's significand (ECMA-262 Number type, used by server.js:106,109).
MantBits == 53

\* The long division and the multiplication work on limbs of this many bits;
\* operands stay below 2^14 so that every intermediate fits a 32-bit integer.
LimbBits == 16

\* The double 0.
DZero == [m |-> <<>>, e |-> 0]

RECURSIVE Pow2(_)
Pow2(n) == IF n = 0 THEN 1 ELSE 2 * Pow2(n - 1)

\* The w low binary digits of a natural number, most significant first.
BitsOf(n, w) == [i \in 1..w |-> (n \div Pow2(w - i)) % 2]

\* Binary digits of a natural number below 2^31 without leading zeros.
NatBits(n) ==
  IF n = 0 THEN <<>>
  ELSE LET w == CHOOSE k \in 1..31 : Pow2(k - 1) <= n /\ (k = 31 \/ n < Pow2(k))
       IN  BitsOf(n, w)

\* The natural number written by a (short) bit sequence.
RECURSIVE BitsToNat(_)
BitsToNat(b) ==
  IF b = <<>> THEN 0
  ELSE 2 * BitsToNat(SubSeq(b, 1, Len(b) - 1)) + b[Len(b)]

\* Number of doublings of d that keep it <= n (n >= d > 0).
RECURSIVE ShiftUp(_, _)
ShiftUp(n, d) == IF 2 * d <= n THEN 1 + ShiftUp(n, 2 * d) ELSE 0

\* Number of doublings of n needed to reach d (0 < n).
RECURSIVE ShiftDown(_, _)
ShiftDown(n, d) == IF n >= d THEN 0 ELSE 1 + ShiftDown(2 * n, d)

\* Long division: the next k limbs of quotient bits of r/d (r < d).
RECURSIVE DivBits(_, _, _)
DivBits(r, d, k) ==
  IF k = 0 THEN <<>>
  ELSE LET n == r * Pow2(LimbBits)
       IN  BitsOf(n \div d, LimbBits) \o DivBits(n % d, d, k - 1)

\* Long division: the remainder left after k limbs of quotient bits.
RECURSIVE DivRem(_, _, _)
DivRem(r, d, k) ==
  IF k = 0 THEN r ELSE DivRem((r * Pow2(LimbBits)) % d, d, k - 1)

\* Limbs of quotient bits that cover the significand, the guard bit and more.
DivLimbs == (MantBits \div LimbBits) + 1

\* b + 1 on a bit sequence of fixed length; an all-ones input wraps to zeros.
IncBits(b) ==
  LET zeros == {i \in 1..Len(b) : b[i] = 0}
  IN  IF zeros = {} THEN [i \in 1..Len(b) |-> 0]
      ELSE LET j == CHOOSE i \in zeros : \A k \in zeros : k <= i
           IN  [i \in 1..Len(b) |-> IF i < j THEN b[i] ELSE IF i = j THEN 1 ELSE 0]

\* Round an exact binary expansion (leading bit 1, exponent e of the leading
\* bit, sticky = some discarded lower part is non-zero) to a double:
\* round-to-nearest, ties to even.
RoundD(bits, e, sticky) ==
  LET padded == IF Len(bits) >= MantBits + 1 THEN bits
                ELSE bits \o [i \in 1..(MantBits + 1 - Len(bits)) |-> 0]
      keep   == SubSeq(padded, 1, MantBits)
      guard  == padded[MantBits + 1]
      rest   == sticky \/ \E i \in (MantBits + 2)..Len(padded) : padded[i] = 1
      up     == guard = 1 /\ (rest \/ keep[MantBits] = 1)
      inc    == IncBits(keep)
  IN  IF ~up THEN [m |-> keep, e |-> e]
      ELSE IF inc[1] = 1 THEN [m |-> inc, e |-> e]
      ELSE [m |-> <<1>> \o SubSeq(inc, 2, MantBits), e |-> e + 1]

\* The double p / c for integers p >= 0, c > 0 (the JavaScript `/`).
DivD(p, c) ==
  IF p = 0 THEN DZero
  ELSE IF p >= c
    THEN LET s == ShiftUp(p, c)
             d == c * Pow2(s)
         IN  RoundD(<<1>> \o DivBits(p - d, d, DivLimbs), s,
                    DivRem(p - d, d, DivLimbs) # 0)
    ELSE LET s == ShiftDown(p, c)
             n == p * Pow2(s)
         IN  RoundD(<<1>> \o DivBits(n - c, c, DivLimbs), 0 - s,
                    DivRem(n - c, c, DivLimbs) # 0)

\* Exact product of a bit sequence with a small natural k, limb by limb from
\* the least significant end; the result has no leading zeros.
RECURSIVE MulAcc(_, _, _)
MulAcc(m, k, carry) ==
  IF m = <<>> THEN NatBits(carry)
  ELSE LET w    == IF Len(m) >= LimbBits THEN LimbBits ELSE Len(m)
           limb == BitsToNat(SubSeq(m, Len(m) - w + 1, Len(m)))
           t    == limb * k + carry
       IN  MulAcc(SubSeq(m, 1, Len(m) - w), k, t \div Pow2(w)) \o BitsOf(t % Pow2(w), w)

\* The double x * k for a double x and a small positive integer k
\* (the JavaScript `*` with an integer-valued right operand).
MulD(x, k) ==
  IF x.m = <<>> THEN DZero
  ELSE LET prod == MulAcc(x.m, k, 0)
       IN  RoundD(prod, x.e + (Len(prod) - Len(x.m)), FALSE)

\* The double x * 0.5 (exact: the exponent drops by one).
HalfD(x) == IF x.m = <<>> THEN DZero ELSE [x EXCEPT !.e = @ - 1]

\* Exact sum of two bit sequences of the same length, limb by limb from the
\* least significant end; a carry out of the top adds one leading bit.
RECURSIVE AddAcc(_, _, _)
AddAcc(a, b, carry) ==
  IF a = <<>> THEN (IF carry = 0 THEN <<>> ELSE <<1>>)
  ELSE LET w  == IF Len(a) >= LimbBits THEN LimbBits ELSE Len(a)
           la == BitsToNat(SubSeq(a, Len(a) - w + 1, Len(a)))
           lb == BitsToNat(SubSeq(b, Len(b) - w + 1, Len(b)))
           t  == la + lb + carry
       IN  AddAcc(SubSeq(a, 1, Len(a) - w), SubSeq(b, 1, Len(b) - w), t \div Pow2(w))
             \o BitsOf(t % Pow2(w), w)

\* The double x + y for non-negative doubles (the JavaScript `+`): both
\* significands are laid on the grid of the lower one, added exactly and the
\* sum is rounded.
AddD(x, y) ==
  IF x.m = <<>> THEN y
  ELSE IF y.m = <<>> THEN x
  ELSE LET hi   == IF x.e >= y.e THEN x.e ELSE y.e
           lowX == x.e - (Len(x.m) - 1)
           lowY == y.e - (Len(y.m) - 1)
           low  == IF lowX <= lowY THEN lowX ELSE lowY
           ax   == [i \in 1..(hi - x.e) |-> 0] \o x.m \o [i \in 1..(lowX - low) |-> 0]
           ay   == [i \in 1..(hi - y.e) |-> 0] \o y.m \o [i \in 1..(lowY - low) |-> 0]
           sum  == AddAcc(ax, ay, 0)
       IN  RoundD(sum, hi + (Len(sum) - Len(ax)), FALSE)

\* Math.floor of a non-negative double below 2^31.
FloorD(x) ==
  IF x.m = <<>> \/ x.e < 0 THEN 0
  ELSE BitsToNat(SubSeq(x.m, 1, x.e + 1))

\* Whether a non-negative double has a non-zero fractional part.
HasFrac(x) ==
  /\ x.m # <<>>
  /\ \E i \in 1..Len(x.m) : i > x.e + 1 /\ x.m[i] = 1

\* x > n for a non-negative double x and a natural number n (the JavaScript `>`).
GtD(x, n) == FloorD(x) > n \/ (FloorD(x) = n /\ HasFrac(x))

(***************************************************************************)
(* Zone registry and simulator (server.js:49-83)                           *)
(***************************************************************************)

\* Campus zones configuration.
ZONES ==
  << [id |-> "AB1",     name |-> "AB1",              capacity |-> 5880],
     [id |-> "AB2",     name |-> "AB2",              capacity |-> 250],
     [id |-> "AB3",     name |-> "AB3",              capacity |-> 5880],
     [id |-> "AB4",     name |-> "AB4",              capacity |-> 5880],
     [id |-> "Library", name |-> "Library",          capacity |-> 300],
     [id |-> "Admin",   name |-> "Admin Block",      capacity |-> 250],
     [id |-> "North",   name |-> "North Square",     capacity |-> 200],
     [id |-> "Gazebo",  name |-> "Gazebo",           capacity |-> 200],
     [id |-> "MBA",     name |-> "MBA Amphitheater", capacity |-> 150] >>

\* The model runs the pipeline over the first NumZones entries of ZONES.
NumZones == 2

Registry == SubSeq(ZONES, 1, IF NumZones <= Len(ZONES) THEN NumZones ELSE Len(ZONES))

\* Math.random() is sampled: one draw per zone gives the three random numbers
\* the simulator consumes for it (population, x, y), each in hundredths.
Draws ==
  { [pop |-> 0,  x |-> 10, y |-> 10],
    [pop |-> 70, x |-> 80, y |-> 80] }

\* The draws with one more: the largest number Math.random() can return.
EdgeDraws == Draws \cup {[pop |-> 100, x |-> 80, y |-> 80]}

\* The double Math.random() returns for the sample r: r / 100 for r in 0..99,
\* and for r = 100 the largest double below 1 (1 - 2^-53).
RandomD(r) ==
  IF r < 100 THEN DivD(r, 100) ELSE [m |-> [i \in 1..MantBits |-> 1], e |-> 0 - 1]

\* Mutant of Population: the variance not halved (up to 100% of capacity).
PopulationWide(capacity, r) ==
  FloorD(AddD(MulD(DivD(3, 10), capacity), MulD(RandomD(r), capacity)))

\* Mutant of Population: Math.round in place of Math.floor.
PopulationRounded(capacity, r) == (capacity * (60 + r) + 100) \div 200

\* Math.floor(zone.capacity * 0.3 + Math.random() * zone.capacity * 0.5) in
\* double arithmetic, Math.random() being RandomD(r).
Population(capacity, r) ==
  FloorD(AddD(MulD(DivD(3, 10), capacity), HalfD(MulD(RandomD(r), capacity))))

\* The simulator's populations on every sampled random number, computed once.
populationMemo ==
  [i \in 1..Len(Registry) |->
     [r \in {d.pop : d \in EdgeDraws} |-> Population(Registry[i].capacity, r)]]

\* generateNetworkActivity under the draws rnd (one per registry zone).
generateNetworkActivity(rnd) ==
  [i \in 1..Len(Registry) |->
     [zoneId      |-> Registry[i].id,
      zoneName    |-> Registry[i].name,
      population  |-> populationMemo[i][rnd[i].pop],
      capacity    |-> Registry[i].capacity,
      coordinates |-> <<rnd[i].x, rnd[i].y>>]]

(***************************************************************************)
(* DBSCAN as run by applyDBSCAN (server.js:86-93): the density-clustering  *)
(* package's DBSCAN.run over point indices 0..n-1                          *)
(***************************************************************************)

Epsilon == 30
MinPoints == 2

\* Mutant of Near: the bound epsilon included.
NearInclusive(a, b) ==
  (a[1] - b[1]) * (a[1] - b[1]) + (a[2] - b[2]) * (a[2] - b[2]) <= Epsilon * Epsilon

\* Euclidean distance below epsilon, on integer coordinates (squared form).
Near(a, b) ==
  (a[1] - b[1]) * (a[1] - b[1]) + (a[2] - b[2]) * (a[2] - b[2]) < Epsilon * Epsilon

\* _regionQuery: the ids within epsilon of pointId, in ascending id order.
RECURSIVE RegionFrom(_, _, _)
RegionFrom(dataset, pointId, id) ==
  IF id >= Len(dataset) THEN <<>>
  ELSE (IF Near(dataset[pointId + 1], dataset[id + 1]) THEN <<id>> ELSE <<>>)
       \o RegionFrom(dataset, pointId, id + 1)

\* Mutant of regionQuery: the point itself left out of its neighbourhood.
regionQueryOthers(dataset, pointId) ==
  LET all == RegionFrom(dataset, pointId, 0)
  IN  [k \in 1..(Len(all) - 1) |->
         IF \E m \in 1..k : all[m] = pointId THEN all[k + 1] ELSE all[k]]

regionQuery(dataset, pointId) == RegionFrom(dataset, pointId, 0)

\* _mergeArrays: a followed by the elements of b that a lacks.
RECURSIVE mergeArrays(_, _)
mergeArrays(a, b) ==
  IF b = <<>> THEN a
  ELSE mergeArrays(IF \E k \in 1..Len(a) : a[k] = b[1] THEN a ELSE Append(a, b[1]),
                   Tail(b))

\* _addToCluster on the run's state st = [visited, assigned, clusters].
addToCluster(st, pointId, clusterId) ==
  [st EXCEPT !.clusters[clusterId + 1] = Append(@, pointId),
             !.assigned = @ \cup {pointId}]

\* Mutant of expandFrom: the cluster is left with its seed point alone.
expandNone(dataset, st, clusterId, neighbors, i) == st

\* _expandCluster from position i of the (growing) neighbour list.
RECURSIVE expandFrom(_, _, _, _, _)
expandFrom(dataset, st, clusterId, neighbors, i) ==
  IF i > Len(neighbors) THEN st
  ELSE LET p2     == neighbors[i]
           fresh  == p2 \notin st.visited
           n2     == regionQuery(dataset, p2)
           nbrs   == IF fresh /\ Len(n2) >= MinPoints
                     THEN mergeArrays(neighbors, n2) ELSE neighbors
           st1    == [st EXCEPT !.visited = @ \cup {p2}]
           st2    == IF p2 \notin st1.assigned
                     THEN addToCluster(st1, p2, clusterId) ELSE st1
       IN  expandFrom(dataset, st2, clusterId, nbrs, i + 1)

\* The main loop of DBSCAN.run from pointId on.
RECURSIVE runFrom(_, _, _)
runFrom(dataset, st, pointId) ==
  IF pointId >= Len(dataset) THEN st
  ELSE IF pointId \in st.visited THEN runFrom(dataset, st, pointId + 1)
  ELSE LET st1       == [st EXCEPT !.visited = @ \cup {pointId}]
           neighbors == regionQuery(dataset, pointId)
       IN  IF Len(neighbors) < MinPoints
           THEN runFrom(dataset, st1, pointId + 1)
           ELSE LET clusterId == Len(st1.clusters)
                    st2 == [st1 EXCEPT !.clusters = Append(@, <<>>)]
                    st3 == addToCluster(st2, pointId, clusterId)
                IN  runFrom(dataset,
                            expandFrom(dataset, st3, clusterId, neighbors, 1),
                            pointId + 1)

\* Mutant of DBSCANrun: the noise points returned as one more cluster.
DBSCANrunWithNoise(dataset) ==
  LET st    == runFrom(dataset, [visited |-> {}, assigned |-> {}, clusters |-> <<>>], 0)
      noise == SelectSeq([k \in 1..Len(dataset) |-> k - 1], LAMBDA id : id \notin st.assigned)
  IN  Append(st.clusters, noise)

\* Mutant of DBSCANrun: every new cluster put in front of the earlier ones.
DBSCANrunUnshift(dataset) ==
  LET c == runFrom(dataset, [visited |-> {}, assigned |-> {}, clusters |-> <<>>], 0).clusters
  IN  [k \in 1..Len(c) |-> c[Len(c) + 1 - k]]

\* dbscan.run(coordinates, 30, 2): the clusters, each a sequence of indices.
DBSCANrun(dataset) ==
  runFrom(dataset, [visited |-> {}, assigned |-> {}, clusters |-> <<>>], 0).clusters

(***************************************************************************)
(* Classifier and applyDBSCAN (server.js:86-127)                           *)
(***************************************************************************)

\* clusters.forEach: the index of the last cluster that includes idx, or -1.
RECURSIVE clusterIdOf(_, _, _, _)
clusterIdOf(clusters, idx, clusterIdx, acc) ==
  IF clusterIdx >= Len(clusters) THEN acc
  ELSE clusterIdOf(clusters, idx, clusterIdx + 1,
         IF \E k \in 1..Len(clusters[clusterIdx + 1]) :
              clusters[clusterIdx + 1][k] = idx
         THEN clusterIdx ELSE acc)

\* Mutant of ClusterLabel: the internal clusterId emitted as it is.
ClusterLabelRaw(clusters, idx) == clusterIdOf(clusters, idx, 0, 0 - 1)

\* cluster: clusterId === -1 ? 0 : clusterId + 1
ClusterLabel(clusters, idx) ==
  LET clusterId == clusterIdOf(clusters, idx, 0, 0 - 1)
  IN  IF clusterId = 0 - 1 THEN 0 ELSE clusterId + 1

\* x >= n for a non-negative double x and a natural number n.
GeD(x, n) == FloorD(x) >= n

\* Mutant of Density: the percentage scale (100) in place of 120.
DensityPercent(population, capacity) == FloorD(MulD(DivD(population, capacity), 100))

\* Math.floor((zone.population / zone.capacity) * 120)
Density(population, capacity) == FloorD(MulD(DivD(population, capacity), 120))

\* (zone.population / zone.capacity) * 100
Percentage(population, capacity) == MulD(DivD(population, capacity), 100)

\* Mutant of Status: the names capitalised, as the README prints them.
StatusCapitalised(population, capacity) ==
  LET percentage == MulD(DivD(population, capacity), 100)
  IN  IF GtD(percentage, 85) THEN "Overcrowded"
      ELSE IF GtD(percentage, 60) THEN "Moderate"
      ELSE "Normal"

\* Mutant of Status: the thresholds applied to the density scale (120).
StatusFromDensity(population, capacity) ==
  LET density == MulD(DivD(population, capacity), 120)
  IN  IF GtD(density, 85) THEN "overcrowded"
      ELSE IF GtD(density, 60) THEN "moderate"
      ELSE "normal"

\* Mutant of Status: the thresholds compared with >= instead of >.
StatusInclusive(population, capacity) ==
  LET percentage == MulD(DivD(population, capacity), 100)
  IN  IF GeD(percentage, 85) THEN "overcrowded"
      ELSE IF GeD(percentage, 60) THEN "moderate"
      ELSE "normal"

\* status: 'overcrowded' above 85, else 'moderate' above 60, else 'normal'.
Status(population, capacity) ==
  LET percentage == Percentage(population, capacity)
  IN  IF GtD(percentage, 85) THEN "overcrowded"
      ELSE IF GtD(percentage, 60) THEN "moderate"
      ELSE "normal"

\* The classifier's two outputs for one zone.
Classify(population, capacity) ==
  [density |-> Density(population, capacity), status |-> Status(population, capacity)]

\* The classifier's outputs on every population the sampled simulator yields,
\* computed once.
classifyMemo ==
  [i \in 1..Len(Registry) |->
     [d \in EdgeDraws |->
        Classify(populationMemo[i][d.pop], Registry[i].capacity)]]

\* applyDBSCAN(zoneData) at clock reading ts, where zoneData was generated
\* under the draws rnd.
applyDBSCAN(zoneData, rnd, ts) ==
  LET coordinates == [i \in 1..Len(zoneData) |-> zoneData[i].coordinates]
      clusters    == DBSCANrun(coordinates)
  IN  [i \in 1..Len(zoneData) |->
         [zoneId     |-> zoneData[i].zoneId,
          zoneName   |-> zoneData[i].zoneName,
          population |-> zoneData[i].population,
          density    |-> classifyMemo[i][rnd[i]].density,
          cluster    |-> ClusterLabel(clusters, i - 1),
          capacity   |-> zoneData[i].capacity,
          status     |-> classifyMemo[i][rnd[i]].status,
          timestamp  |-> ts]]

\* The random draws of one run of the simulator.
DrawSets == [1..Len(Registry) -> Draws]

\* The runs in which every zone draws the same numbers.
UniformDraws == {[i \in 1..Len(Registry) |-> d] : d \in Draws}

\* The same over the draws with the largest random number.
UniformEdgeDraws == {[i \in 1..Len(Registry) |-> d] : d \in EdgeDraws}

\* One pass simulate -> cluster -> classify.
Snapshot(rnd, ts) == applyDBSCAN(generateNetworkActivity(rnd), rnd, ts)

(***************************************************************************)
(* State                                                                   *)
(***************************************************************************)

VARIABLES
  now,       \* wall clock (Date.now()), in milliseconds since server.listen
  lastFire,  \* clock reading at the last firing of the setInterval timer
  ticks,     \* the timer callbacks started so far, each with its position
  store,     \* the zones collection, in insertion order
  clients,   \* sockets currently connected to io
  sent,      \* every 'zoneUpdate' emitted so far, with its recipients
  pending,   \* the REST request whose store lookup is awaited
  resp,      \* the last REST response
  pIn,       \* classifier harness: population
  cIn,       \* classifier harness: capacity
  out,       \* classifier harness: result
  coordsIn,  \* clusterer harness: the coordinates handed to dbscan.run
  clOut,     \* clusterer harness: the clusters returned and the labels assigned
  dbDown,    \* mongoose has reported 'disconnected'
  inbox,     \* per socket, the positions in sent of the events it has got or lost
  dashboard, \* dashboard: the React state of App the subscription writes
  received   \* dashboard: every 'zoneUpdate' payload the subscription has handed over

vars == <<now, lastFire, ticks, store, clients, sent, pending, resp, pIn, cIn, out,
          coordsIn, clOut, dbDown, inbox, dashboard, received>>

pipeVars == <<now, lastFire, ticks, store, clients, sent>>
restVars == <<pending, resp>>
\* Written by none of the tick loop, the socket handlers and the REST handlers.
dashVars == <<dashboard, received>>
harnessVars == <<pIn, cIn, out, coordsIn, clOut, dbDown, inbox, dashVars>>

\* setInterval period (ms).
TickMs == 5000
\* The history window: 15 * 60 * 1000 ms.
WindowMs == 900000

\* Bounds of the model.
MaxTicks == 2
MaxRequests == 1
RefreshTicks == 1
MaxRefreshes == 2
NumClients == 2
\* The clock readings of the model: up to MaxPeriods timer periods after up to
\* MaxWindows history windows.
MaxPeriods == 2
MaxWindows == 1

ClockValues == {a * TickMs + b * WindowMs : a \in 0..MaxPeriods, b \in 0..MaxWindows}
Clients == 1..NumClients

\* A zoneId no tick ever writes.
UnknownZone == "Cafeteria"
QueryIds == {Registry[i].id : i \in 1..Len(Registry)} \cup {UnknownZone}

NoQuery == [ep |-> "none", zoneId |-> "", at |-> 0, minutes |-> 0, cutoff |-> 0]
NoSummary == [totalPopulation |-> 0, activeZones |-> 0, overcrowdedZones |-> 0, totalZones |-> 0]
NoResp ==
  [ep |-> "none", code |-> 0, success |-> FALSE, zoneId |-> "", data |-> <<>>,
   count |-> 0, summary |-> NoSummary, at |-> 0, minutes |-> 0, cutoff |-> 0]
NoOut == [density |-> 0 - 1, status |-> "none"]
NoInbox == [c \in Clients |-> [got |-> {}, lost |-> {}]]
NoClusters == [ran |-> FALSE, clusters |-> <<>>, labels |-> <<>>]
\* useState([]) for zones and trendData, and the initial summary.
NoDashboard ==
  [zones     |-> <<>>,
   trendData |-> <<>>,
   summary   |-> [totalPopulation |-> 0, activeZones |-> 0, avgDensity |-> 0, flowTrend |-> 0]]

Init ==
  /\ now = 0
  /\ lastFire = 0
  /\ ticks = <<>>
  /\ store = <<>>
  /\ clients = {}
  /\ sent = <<>>
  /\ pending = NoQuery
  /\ resp = NoResp
  /\ pIn = 0
  /\ cIn = 1
  /\ out = NoOut
  /\ coordsIn = <<>>
  /\ clOut = NoClusters
  /\ dbDown = FALSE
  /\ inbox = NoInbox
  /\ dashboard = NoDashboard
  /\ received = <<>>

(***************************************************************************)
(* The tick loop (server.js:130-158)                                       *)
(***************************************************************************)

\* Time passes without the timer firing (a late timer, a stalled event loop).
Elapse(d) ==
  /\ now + d \in ClockValues
  /\ now' = now + d
  /\ UNCHANGED <<lastFire, ticks, store, clients, sent, restVars, harnessVars>>

\* The clock reading at which the timer fires next: one period after its last
\* firing, or now if that moment has passed.
FireTime == IF now >= lastFire + TickMs THEN now ELSE lastFire + TickMs

\* The setInterval callback up to its await: simulate, cluster and classify,
\* then hand the readings to Zone.insertMany.
StartTick(D) ==
  /\ FireTime \in ClockValues
  /\ \E rnd \in D :
       ticks' = Append(ticks, [data    |-> Snapshot(rnd, FireTime),
                               pc      |-> "insert",
                               k       |-> 0,
                               ok      |-> FALSE])
  /\ now' = FireTime
  /\ lastFire' = FireTime
  /\ UNCHANGED <<store, clients, sent, restVars, harnessVars>>

\* zoneSchema's validators on one document: the required paths are there
\* (a required String is not empty), population and density are numbers not
\* below 0, cluster and capacity are numbers, and status, when given, is one
\* of the enum's values.
Validates(d) ==
  /\ {"zoneId", "zoneName", "population", "density", "cluster", "capacity"} \subseteq DOMAIN d
  /\ d.zoneId # "" /\ d.zoneName # ""
  /\ d.population \in Int /\ d.population >= 0
  /\ d.density \in Int /\ d.density >= 0
  /\ d.cluster \in Int
  /\ d.capacity \in Int
  /\ "status" \in DOMAIN d => d.status \in {"normal", "moderate", "overcrowded"}

\* insertMany validates every document of the batch before it writes any.
ValidBatch(docs) == \A i \in 1..Len(docs) : Validates(docs[i])

\* MongoDB writes the next document of an insertMany batch that has passed
\* validation.
DbInsert(t) ==
  /\ ticks[t].pc = "insert"
  /\ ticks[t].k < Len(ticks[t].data)
  /\ ValidBatch(ticks[t].data)
  /\ store' = Append(store, ticks[t].data[ticks[t].k + 1])
  /\ ticks' = [ticks EXCEPT ![t].k = @ + 1]
  /\ UNCHANGED <<now, lastFire, clients, sent, restVars, harnessVars>>

\* Zone.insertMany resolves: every document is written.
DbAck(t) ==
  /\ ticks[t].pc = "insert"
  /\ ticks[t].k = Len(ticks[t].data)
  /\ ticks' = [ticks EXCEPT ![t].pc = "settled", ![t].ok = TRUE, ![t].k = 0]
  /\ UNCHANGED <<now, lastFire, store, clients, sent, restVars, harnessVars>>

\* Zone.insertMany rejects (store unreachable, buffering timeout, write error);
\* the documents written before the error stay.
DbFail(t) ==
  /\ ticks[t].pc = "insert"
  /\ ticks' = [ticks EXCEPT ![t].pc = "settled", ![t].ok = FALSE, ![t].k = 0]
  /\ UNCHANGED <<now, lastFire, store, clients, sent, restVars, harnessVars>>

\* Mutant of saveZoneData: the catch block rethrows.
saveZoneDataRethrow(ok) == IF ok THEN "returned" ELSE "thrown"

\* saveZoneData(zoneData), given whether insertMany resolved: the try block
\* logs success, the catch block logs the error; it returns either way.
saveZoneData(ok) == "returned"

\* Mutant of awaitSave: the callback resumes only when insertMany resolved.
awaitSaveResolved(tk) == tk.pc = "settled" /\ tk.ok

\* Mutant of awaitSave: the await left out, the callback goes on at once.
awaitSaveMissing(tk) == TRUE

\* `await saveZoneData(...)`: the callback resumes once insertMany has settled.
awaitSave(tk) == tk.pc = "settled"

\* What the callback emits: the array it handed to saveZoneData.
Emitted(tk) == tk.data

\* Mutant of Recipients: a broadcast that leaves one socket out.
RecipientsButFirst == {c \in clients : c # 1}

\* io.emit: every connected socket.
Recipients == clients

\* Mutant of Publish: the emit waits until every socket has taken what was
\* sent to it before.
PublishAfterAcks(t) ==
  /\ ticks[t].pc = "settled"
  /\ \A c \in clients :
       {i \in 1..Len(sent) : c \in sent[i].to} \subseteq (inbox[c].got \cup inbox[c].lost)
  /\ sent' = Append(sent, [kind |-> "tick", id |-> t, to |-> clients,
                           data |-> ticks[t].data])
  /\ ticks' = [ticks EXCEPT ![t].pc = "done"]
  /\ UNCHANGED <<now, lastFire, store, clients, restVars, harnessVars>>

\* The callback after its await: io.emit('zoneUpdate', clusteredData).  Had
\* saveZoneData thrown, the callback would end there without emitting.
Publish(t) ==
  /\ ticks[t].pc \in {"insert", "settled"}
  /\ awaitSave(ticks[t])
  /\ IF saveZoneData(ticks[t].ok) = "returned"
     THEN /\ sent' = Append(sent, [kind |-> "tick", id |-> t, to |-> Recipients,
                                   data |-> Emitted(ticks[t])])
          /\ ticks' = [ticks EXCEPT ![t].pc = "done"]
     ELSE /\ sent' = sent
          /\ ticks' = [ticks EXCEPT ![t].pc = "aborted"]
  /\ UNCHANGED <<now, lastFire, store, clients, restVars, harnessVars>>

\* mongoose.connection.on('disconnected'): the handler logs a warning; the
\* timer, the pending appends and the sockets are left as they are.
MongoDisconnected ==
  /\ ~dbDown
  /\ dbDown' = TRUE
  /\ UNCHANGED <<pipeVars, restVars, pIn, cIn, out, coordsIn, clOut, inbox, dashVars>>

\* mongoose.connect(MONGODB_URI) rejects at start-up: the catch logs the
\* error and the server carries on without a store connection.
MongoConnectError ==
  /\ now = 0 /\ ticks = <<>>
  /\ ~dbDown
  /\ dbDown' = TRUE
  /\ UNCHANGED <<pipeVars, restVars, pIn, cIn, out, coordsIn, clOut, inbox, dashVars>>

(***************************************************************************)
(* Socket.IO connections (server.js:255-267)                               *)
(***************************************************************************)

Connect(c) ==
  /\ c \notin clients
  /\ clients' = clients \cup {c}
  /\ UNCHANGED <<now, lastFire, ticks, store, sent, restVars, harnessVars>>

Disconnect(c) ==
  /\ c \in clients
  /\ clients' = clients \ {c}
  /\ UNCHANGED <<now, lastFire, ticks, store, sent, restVars, harnessVars>>

\* The events emitted to socket c that it has neither got nor lost.
Queue(c) ==
  {i \in 1..Len(sent) : c \in sent[i].to} \ (inbox[c].got \cup inbox[c].lost)

\* The transport hands socket c the oldest event queued for it; the server
\* code takes no part in this step.
Deliver(c) ==
  /\ c \in clients
  /\ Queue(c) # {}
  /\ LET i == CHOOSE m \in Queue(c) : \A k \in Queue(c) : m <= k
     IN  inbox' = [inbox EXCEPT ![c].got = @ \cup {i}]
  /\ UNCHANGED <<pipeVars, restVars, pIn, cIn, out, coordsIn, clOut, dbDown, dashVars>>

\* A socket closes (or its transport fails) with events still queued: they
\* are lost with it; the 'disconnect' handler logs.
Drop(c) ==
  /\ c \in clients
  /\ clients' = clients \ {c}
  /\ inbox' = [inbox EXCEPT ![c].lost = @ \cup Queue(c)]
  /\ UNCHANGED <<now, lastFire, ticks, store, sent, restVars, pIn, cIn, out,
                 coordsIn, clOut, dbDown, dashVars>>

Refreshes == {i \in 1..Len(sent) : sent[i].kind = "refresh"}

\* Mutant of RefreshRecipients: io.emit in place of socket.emit.
RefreshRecipientsAll(c) == clients

\* socket.emit: the requesting socket alone.
RefreshRecipients(c) == {c}

\* Mutant of RequestUpdate: the handler saves its snapshot as a tick does.
RequestUpdateSaved(c, D) ==
  /\ c \in clients
  /\ \E rnd \in D :
       /\ sent' = Append(sent, [kind |-> "refresh", id |-> c, to |-> {c},
                                data |-> Snapshot(rnd, now)])
       /\ store' = store \o Snapshot(rnd, now)
  /\ UNCHANGED <<now, lastFire, ticks, clients, restVars, harnessVars>>

\* socket.on('requestUpdate'): a fresh snapshot for the requesting socket.
RequestUpdate(c, D) ==
  /\ c \in clients
  /\ \E rnd \in D :
       sent' = Append(sent, [kind |-> "refresh", id |-> c, to |-> RefreshRecipients(c),
                             data |-> Snapshot(rnd, now)])
  /\ UNCHANGED <<now, lastFire, ticks, store, clients, restVars, harnessVars>>

(***************************************************************************)
(* Store queries (server.js:163-252, models/Zone.js:59-84)                 *)
(***************************************************************************)

\* Stable insertion of doc d into a sequence sorted by descending timestamp.
RECURSIVE InsertDesc(_, _)
InsertDesc(d, s) ==
  IF s = <<>> THEN <<d>>
  ELSE IF s[1].timestamp >= d.timestamp THEN <<s[1]>> \o InsertDesc(d, Tail(s))
  ELSE <<d>> \o s

\* { $sort: { timestamp: -1 } }
RECURSIVE SortDesc(_)
SortDesc(s) ==
  IF s = <<>> THEN <<>>
  ELSE InsertDesc(s[Len(s)], SortDesc(SubSeq(s, 1, Len(s) - 1)))

\* Stable insertion of doc d into a sequence sorted by ascending timestamp.
RECURSIVE InsertAsc(_, _)
InsertAsc(d, s) ==
  IF s = <<>> THEN <<d>>
  ELSE IF s[1].timestamp <= d.timestamp THEN <<s[1]>> \o InsertAsc(d, Tail(s))
  ELSE <<d>> \o s

\* .sort({ timestamp: 1 })
RECURSIVE SortAsc(_)
SortAsc(s) ==
  IF s = <<>> THEN <<>>
  ELSE InsertAsc(s[Len(s)], SortAsc(SubSeq(s, 1, Len(s) - 1)))

\* { $group: { _id: '$zoneId', f: { $first: '$f' }, ... } } over a document
\* stream: one row per zoneId, built from the first document met for it.
RECURSIVE GroupFirst(_, _)
GroupFirst(s, rows) ==
  IF s = <<>> THEN rows
  ELSE GroupFirst(Tail(s),
         IF \E k \in 1..Len(rows) : rows[k].id = s[1].zoneId THEN rows
         ELSE Append(rows, [id         |-> s[1].zoneId,
                            zoneName   |-> s[1].zoneName,
                            population |-> s[1].population,
                            density    |-> s[1].density,
                            cluster    |-> s[1].cluster,
                            capacity   |-> s[1].capacity,
                            status     |-> s[1].status,
                            timestamp  |-> s[1].timestamp]))

\* Mutant of getLatestData: the $sort stage ascending (timestamp: 1).
getOldestData(s) == GroupFirst(SortAsc(s), <<>>)

\* The aggregation of GET /api/zones and Zone.getLatestData.
getLatestData(s) == GroupFirst(SortDesc(s), <<>>)

\* Mutant of SummaryRows: the $sort stage left out, so that $first takes the
\* first document inserted.
SummaryRowsUnsorted(s) ==
  LET rows == GroupFirst(s, <<>>)
  IN  [k \in 1..Len(rows) |->
         [id |-> rows[k].id, population |-> rows[k].population, status |-> rows[k].status]]

\* The aggregation of GET /api/summary: the same pipeline, two fields a row.
SummaryRows(s) ==
  LET rows == GroupFirst(SortDesc(s), <<>>)
  IN  [k \in 1..Len(rows) |->
         [id |-> rows[k].id, population |-> rows[k].population, status |-> rows[k].status]]

\* Zone.find({ zoneId, timestamp: { $gte: cutoff } })
RECURSIVE FindSince(_, _, _)
FindSince(s, zoneId, cutoff) ==
  IF s = <<>> THEN <<>>
  ELSE (IF s[1].zoneId = zoneId /\ s[1].timestamp >= cutoff THEN <<s[1]>> ELSE <<>>)
       \o FindSince(Tail(s), zoneId, cutoff)

\* Mutant of getZoneHistory: $gt in place of $gte.
getZoneHistoryStrict(s, zoneId, cutoff) == SortAsc(FindSince(s, zoneId, cutoff + 1))

\* Mutant of getZoneHistory: the zoneId filter left out.
RECURSIVE getZoneHistoryAnyZone(_, _, _)
getZoneHistoryAnyZone(s, zoneId, cutoff) ==
  IF s = <<>> THEN <<>>
  ELSE (IF s[1].timestamp >= cutoff THEN <<s[1]>> ELSE <<>>)
       \o getZoneHistoryAnyZone(Tail(s), zoneId, cutoff)

\* The lookup of GET /api/history/:zoneId and Zone.getZoneHistory.
getZoneHistory(s, zoneId, cutoff) == SortAsc(FindSince(s, zoneId, cutoff))

\* latestZones.reduce((sum, z) => sum + z.population, 0)
RECURSIVE SumPopulation(_)
SumPopulation(rows) ==
  IF rows = <<>> THEN 0 ELSE rows[1].population + SumPopulation(Tail(rows))

\* The summary object of GET /api/summary.
Summarize(rows) ==
  [totalPopulation  |-> SumPopulation(rows),
   activeZones      |-> Cardinality({k \in 1..Len(rows) : rows[k].population > 0}),
   overcrowdedZones |-> Cardinality({k \in 1..Len(rows) : rows[k].status = "overcrowded"}),
   totalZones       |-> Len(Registry)]

Endpoints == {"zones", "history", "summary"}

\* The window when the caller names none (minutes = 15).
DefaultMinutes == 15
MsPerMinute == 60000

\* Mutant of fifteenMinutesAgo: the duration the caller asked for is used.
cutoffAsked(t, asked) == t - asked * MsPerMinute

\* new Date(Date.now() - 15 * 60 * 1000) at clock reading t; the handler takes
\* zoneId from req.params and reads no duration from the request.
fifteenMinutesAgo(t, asked) == t - WindowMs

\* A request handler up to its await, for a caller that asks for a window of
\* d minutes.  The history handler reads the clock for its cutoff before the
\* lookup is sent.
Request(ep, z, d) ==
  /\ pending = NoQuery
  /\ resp = NoResp
  /\ ep = "history" \/ (z = UnknownZone /\ d = DefaultMinutes)
  /\ pending' = [ep      |-> ep,
                 zoneId  |-> IF ep = "history" THEN z ELSE "",
                 at      |-> IF ep = "history" THEN now ELSE 0,
                 minutes |-> IF ep = "history" THEN d ELSE 0,
                 cutoff  |-> IF ep = "history" THEN fifteenMinutesAgo(now, d) ELSE 0]
  /\ UNCHANGED <<pipeVars, resp, harnessVars>>

\* The lookup runs on the store as it is now and the handler answers.
Respond ==
  /\ pending # NoQuery
  /\ resp' =
       [NoResp EXCEPT
          !.ep      = pending.ep,
          !.code    = 200,
          !.success = TRUE,
          !.zoneId  = pending.zoneId,
          !.at      = pending.at,
          !.minutes = pending.minutes,
          !.cutoff  = pending.cutoff,
          !.data    = IF pending.ep = "zones" THEN getLatestData(store)
                      ELSE IF pending.ep = "history"
                      THEN getZoneHistory(store, pending.zoneId, pending.cutoff)
                      ELSE <<>>,
          !.count   = IF pending.ep = "history"
                      THEN Len(getZoneHistory(store, pending.zoneId, pending.cutoff))
                      ELSE 0,
          !.summary = IF pending.ep = "summary" THEN Summarize(SummaryRows(store))
                      ELSE NoSummary]
  /\ pending' = NoQuery
  /\ UNCHANGED <<pipeVars, harnessVars>>

\* The lookup rejects: the catch block answers 500.
RespondError ==
  /\ pending # NoQuery
  /\ resp' = [NoResp EXCEPT !.ep = pending.ep, !.code = 500, !.zoneId = pending.zoneId,
                            !.at = pending.at, !.minutes = pending.minutes,
                            !.cutoff = pending.cutoff]
  /\ pending' = NoQuery
  /\ UNCHANGED <<pipeVars, harnessVars>>

\* The HTTP client reads the response.  Nothing in the server reads resp, so
\* the model lets the response be read before anything else happens.
Receive ==
  /\ resp # NoResp
  /\ resp' = NoResp
  /\ UNCHANGED <<pipeVars, pending, harnessVars>>

\* The body GET /health answers at clock reading t when the store connection
\* is down or not: status, timestamp and uptime (process.uptime(), here in
\* milliseconds since start); the handler reads nothing of the connection.
healthResponse(t, down) ==
  [ep |-> "health", code |-> 200, status |-> "OK", timestamp |-> t, uptime |-> t]

\* GET /health: the handler answers at once.
Health ==
  /\ pending = NoQuery
  /\ resp = NoResp
  /\ resp' = healthResponse(now, dbDown)
  /\ UNCHANGED <<pipeVars, pending, harnessVars>>

(***************************************************************************)
(* Specifications                                                          *)
(***************************************************************************)

\* At most n firings of the timer.
TickLoop(D, n) ==
  \/ Len(ticks) < n /\ StartTick(D)
  \/ \E t \in 1..Len(ticks) : DbInsert(t)
  \/ \E t \in 1..Len(ticks) : DbAck(t)
  \/ \E t \in 1..Len(ticks) : DbFail(t)
  \/ \E t \in 1..Len(ticks) : Publish(t)

\* The tick loop with the Socket.IO side: connections and on-demand refreshes.
Next ==
  \/ TickLoop(UniformDraws, MaxTicks)
  \/ \E c \in Clients : Connect(c)
  \/ \E c \in Clients : Disconnect(c)
  \/ Cardinality(Refreshes) < MaxRequests
       /\ \E c \in Clients : RequestUpdate(c, UniformDraws)

Spec == Init /\ [][Next]_vars

\* The same with fewer firings of the timer and more on-demand refreshes.
NextRefresh ==
  \/ TickLoop(UniformDraws, RefreshTicks)
  \/ \E c \in Clients : Connect(c)
  \/ \E c \in Clients : Disconnect(c)
  \/ Cardinality(Refreshes) < MaxRefreshes
       /\ \E c \in Clients : RequestUpdate(c, UniformDraws)

SpecRefresh == Init /\ [][NextRefresh]_vars

\* The tick loop with sockets that connect, take their events late or never,
\* and close.
NextDeliver ==
  \/ TickLoop(UniformDraws, MaxTicks)
  \/ \E c \in Clients : Connect(c)
  \/ \E c \in Clients : Drop(c)
  \/ \E c \in Clients : Deliver(c)

SpecDeliver == Init /\ [][NextDeliver]_vars

\* Windows a caller may ask for, in minutes: shorter than, equal to and longer
\* than the default.
Durations == {5, DefaultMinutes, 30}

\* The tick loop with history requests that name a duration.
NextHistory ==
  \/ resp = NoResp /\ TickLoop(UniformDraws, MaxTicks)
  \/ resp = NoResp /\ Elapse(WindowMs)
  \/ \E z \in QueryIds, d \in Durations : Request("history", z, d)
  \/ Respond
  \/ RespondError
  \/ Receive

SpecHistory == Init /\ [][NextHistory]_vars

\* The tick loop with the store connection going away.
NextStop ==
  \/ TickLoop(UniformDraws, MaxTicks)
  \/ MongoDisconnected

SpecStop == Init /\ [][NextStop]_vars

\* The same under the scheduling the runtime gives: an append that is under
\* way settles in the end (it resolves or rejects), and a callback whose
\* await has settled is resumed by the event loop.
TickFairness ==
  \A t \in 1..MaxTicks :
    /\ WF_vars(t \in DOMAIN ticks /\ (DbAck(t) \/ DbFail(t)))
    /\ WF_vars(t \in DOMAIN ticks /\ Publish(t))

SpecLive == Init /\ [][NextStop]_vars /\ TickFairness

\* The tick loop with the Socket.IO side and the REST side together.
NextAll ==
  \/ resp = NoResp /\ TickLoop(UniformDraws, RefreshTicks)
  \/ resp = NoResp /\ \E c \in Clients : Connect(c)
  \/ resp = NoResp /\ \E c \in Clients : Disconnect(c)
  \/ resp = NoResp /\ Cardinality(Refreshes) < MaxRequests
       /\ \E c \in Clients : RequestUpdate(c, UniformDraws)
  \/ \E ep \in Endpoints, z \in QueryIds : Request(ep, z, DefaultMinutes)
  \/ Respond
  \/ RespondError
  \/ Receive

SpecAll == Init /\ [][NextAll]_vars

\* The same with the largest random number among the draws.
NextEdge ==
  \/ resp = NoResp /\ TickLoop(UniformEdgeDraws, RefreshTicks)
  \/ resp = NoResp /\ \E c \in Clients : Connect(c)
  \/ resp = NoResp /\ \E c \in Clients : Disconnect(c)
  \/ resp = NoResp /\ Cardinality(Refreshes) < MaxRequests
       /\ \E c \in Clients : RequestUpdate(c, UniformEdgeDraws)
  \/ \E ep \in Endpoints, z \in QueryIds : Request(ep, z, DefaultMinutes)
  \/ Respond
  \/ RespondError
  \/ Receive

SpecEdge == Init /\ [][NextEdge]_vars

\* The tick loop with the REST side: the three store queries, over a time
\* span longer than the history window.
NextRest ==
  \/ resp = NoResp /\ TickLoop(DrawSets, MaxTicks)
  \/ resp = NoResp /\ Elapse(WindowMs)
  \/ \E ep \in Endpoints, z \in QueryIds : Request(ep, z, DefaultMinutes)
  \/ Respond
  \/ RespondError
  \/ Receive

SpecRest == Init /\ [][NextRest]_vars

\* The tick loop with the health check and the store connection failing at
\* start-up or going away later.
NextHealth ==
  \/ resp = NoResp /\ TickLoop(UniformDraws, MaxTicks)
  \/ MongoConnectError
  \/ MongoDisconnected
  \/ Health
  \/ Receive

SpecHealth == Init /\ [][NextHealth]_vars

(***************************************************************************)
(* The classifier on its own: every capacity up to MaxCap with every       *)
(* population up to twice the capacity, and every registry capacity with   *)
(* the populations the simulator can yield and those around the thresholds *)
(***************************************************************************)

MaxCap == 20

RegistryCaps == {ZONES[i].capacity : i \in 1..Len(ZONES)}

\* Populations tried with a registry capacity.
RegistryPops(c) ==
  {Population(c, r) : r \in 0..100}
    \cup {(60 * c) \div 100 + d : d \in {0 - 1, 0, 1}}
    \cup {(85 * c) \div 100 + d : d \in {0 - 1, 0, 1}}
    \cup {p \in {0, 4625, c} : p <= c}

InitClassify ==
  /\ now = 0
  /\ lastFire = 0
  /\ ticks = <<>>
  /\ store = <<>>
  /\ clients = {}
  /\ sent = <<>>
  /\ pending = NoQuery
  /\ resp = NoResp
  /\ cIn \in (1..MaxCap) \cup RegistryCaps
  /\ pIn \in IF cIn \in RegistryCaps THEN RegistryPops(cIn) ELSE 0..(2 * cIn)
  /\ out = NoOut
  /\ coordsIn = <<>>
  /\ clOut = NoClusters
  /\ dbDown = FALSE
  /\ inbox = NoInbox
  /\ dashboard = NoDashboard
  /\ received = <<>>

\* The classifier part of applyDBSCAN's map callback on (pIn, cIn).
ClassifyStep ==
  /\ out = NoOut
  /\ out' = Classify(pIn, cIn)
  /\ UNCHANGED <<pipeVars, restVars, pIn, cIn, coordsIn, clOut, dbDown, inbox, dashVars>>

SpecClassify == InitClassify /\ [][ClassifyStep]_vars

(***************************************************************************)
(* The clusterer on its own: every sequence of up to MaxPoints coordinates *)
(* taken from Places, and the nine-zone scenario with one close pair       *)
(***************************************************************************)

MaxPoints == 5

\* Coordinates with pairs at distance below, exactly at and above epsilon:
\* (0,0)-(18,0) 18, (0,0)-(0,24) 24, (18,0)-(30,0) 12, (0,0)-(30,0) 30,
\* (18,0)-(0,24) 30, (30,0)-(60,0) 30, (18,0)-(60,0) 42; (80,80) and (80,60)
\* 20 apart and far from all others.
Places == {<<0, 0>>, <<18, 0>>, <<30, 0>>, <<0, 24>>, <<60, 0>>, <<80, 80>>, <<80, 60>>}

\* Nine coordinates: the first two 10 apart, every other pair more than 40 apart.
NineZones ==
  <<<<0, 0>>, <<6, 8>>, <<50, 0>>, <<100, 0>>, <<0, 50>>, <<50, 50>>, <<100, 50>>,
    <<50, 100>>, <<100, 100>>>>

\* Nine coordinates: four pairs 10 apart, the pairs more than 40 apart from
\* each other, and one zone far from all.
FourPairs ==
  <<<<0, 0>>, <<6, 8>>, <<50, 0>>, <<56, 8>>, <<0, 50>>, <<6, 58>>, <<50, 50>>,
    <<56, 58>>, <<100, 100>>>>

\* NineZones with the close pair moved to positions i and j.
Swapped(s, i, j) ==
  [k \in 1..Len(s) |-> IF k = i THEN s[1] ELSE IF k = 1 THEN s[i]
                        ELSE IF k = j THEN s[2] ELSE IF k = 2 THEN s[j] ELSE s[k]]

CoordInputs ==
  UNION {[1..n -> Places] : n \in 0..MaxPoints}
    \cup {NineZones, Swapped(NineZones, 1, 9), Swapped(NineZones, 4, 7), FourPairs}

InitCluster ==
  /\ now = 0
  /\ lastFire = 0
  /\ ticks = <<>>
  /\ store = <<>>
  /\ clients = {}
  /\ sent = <<>>
  /\ pending = NoQuery
  /\ resp = NoResp
  /\ pIn = 0
  /\ cIn = 1
  /\ out = NoOut
  /\ coordsIn \in CoordInputs
  /\ clOut = NoClusters
  /\ dbDown = FALSE
  /\ inbox = NoInbox
  /\ dashboard = NoDashboard
  /\ received = <<>>

\* The clustering part of applyDBSCAN on coordsIn: dbscan.run, then the label
\* of every index.
ClusterStep ==
  /\ ~clOut.ran
  /\ LET clusters == DBSCANrun(coordsIn)
     IN  clOut' = [ran      |-> TRUE,
                   clusters |-> clusters,
                   labels   |-> [i \in 1..Len(coordsIn) |-> ClusterLabel(clusters, i - 1)]]
  /\ UNCHANGED <<pipeVars, restVars, pIn, cIn, out, coordsIn, dbDown, inbox, dashVars>>

SpecCluster == InitCluster /\ [][ClusterStep]_vars

(***************************************************************************)
(* The dashboard's subscription to 'zoneUpdate' (frontend App): the        *)
(* callback on every payload received, tick broadcasts and refresh answers *)
(* alike                                                                   *)
(***************************************************************************)

\* if (newData.length >= 12) newData.shift()
TrendLimit == 12

\* Payloads received in a run of the dashboard.
MaxUpdates == 14

\* toLocaleTimeString('en-US', { hour: '2-digit', minute: '2-digit' }): the
\* minute of the day of clock reading t.
HourMinute(t) == (t \div MsPerMinute) % (24 * 60)

\* data.reduce((sum, z) => sum + z.population, 0)
totalPop(data) == SumPopulation(data)

\* data.reduce((sum, z) => sum + z.density, 0)
RECURSIVE SumDensity(_)
SumDensity(data) ==
  IF data = <<>> THEN 0 ELSE data[1].density + SumDensity(Tail(data))

\* Mutant of pushTrend: the oldest entry dropped only above 12 entries.
pushTrendLate(prev, entry) ==
  Append(IF Len(prev) > TrendLimit THEN Tail(prev) ELSE prev, entry)

\* The updater handed to setTrendData: a copy of prev, shifted when it holds
\* 12 entries or more, with the new entry pushed.
pushTrend(prev, entry) ==
  LET newData == IF Len(prev) >= TrendLimit THEN Tail(prev) ELSE prev
  IN  Append(newData, entry)

\* The callback of subscribeToZoneUpdates on payload data: setZones,
\* setTrendData and setSummary.
OnZoneUpdate(data) ==
  /\ dashboard' =
       [zones     |-> [i \in 1..Len(data) |->
                         [id         |-> data[i].zoneId,
                          name       |-> data[i].zoneName,
                          population |-> data[i].population,
                          density    |-> data[i].density,
                          cluster    |-> data[i].cluster,
                          capacity   |-> data[i].capacity,
                          status     |-> data[i].status]],
        trendData |-> pushTrend(dashboard.trendData,
                                [time |-> HourMinute(now), population |-> totalPop(data)]),
        summary   |-> [totalPopulation |-> totalPop(data),
                       activeZones     |-> Cardinality({i \in 1..Len(data) :
                                                          data[i].population > 0}),
                       avgDensity      |-> SumDensity(data) \div Len(data),
                       flowTrend       |-> dashboard.summary.flowTrend]]
  /\ received' = Append(received, data)
  /\ UNCHANGED <<pipeVars, restVars, pIn, cIn, out, coordsIn, clOut, dbDown, inbox>>

\* The payloads the server emits: a snapshot under each uniform draw.
Payloads == {Snapshot(rnd, 0) : rnd \in UniformDraws}

NextDashboard ==
  Len(received) < MaxUpdates /\ \E data \in Payloads : OnZoneUpdate(data)

SpecDashboard == Init /\ [][NextDashboard]_vars

(***************************************************************************)
(* Properties                                                              *)
(***************************************************************************)

\* C1: for every capacity c > 0 and population p >= 0 the classifier's status is
\* 'overcrowded' iff p/c > 0.85, 'moderate' iff 0.60 < p/c <= 0.85, and
\* 'normal' otherwise (p/c = 0.85 gives 'moderate', p/c = 0.60 gives 'normal'),
\* the ratios taken exactly.
C1_StatusThresholds ==
  out # NoOut =>
    /\ out.status = "overcrowded" <=> 100 * pIn > 85 * cIn
    /\ out.status = "moderate" <=> (100 * pIn > 60 * cIn /\ 100 * pIn <= 85 * cIn)
    /\ out.status = "normal" <=> 100 * pIn <= 60 * cIn

\* C1 witness: a population at exactly 85% of the capacity was classified
\* 'moderate'.
C1_Witness ==
  out # NoOut /\ 100 * pIn = 85 * cIn /\ pIn > 0 /\ out.status = "moderate"

\* C2: the density of a reading (population <= capacity) is the exact
\* floor(population / capacity * 120), which is floor(percentage * 1.2) for
\* the exact percentage population / capacity * 100; 4625 of 5880 gives 94.
C2_DensityFormula ==
  (out # NoOut /\ pIn <= cIn) =>
    /\ out.density = (120 * pIn) \div cIn
    /\ out.density = (100 * pIn * 12) \div (cIn * 10)
    /\ (pIn = 4625 /\ cIn = 5880) => out.density = 94

\* C2 witness: population 4625 with capacity 5880 was given density 94.
C2_Witness ==
  out # NoOut /\ pIn = 4625 /\ cIn = 5880 /\ out.density = 94

\* The zoneIds with at least one reading in the store.
StoredZones == {store[i].zoneId : i \in 1..Len(store)}

\* The positions in the store of the readings of zone z.
ReadingsOf(z) == {i \in 1..Len(store) : store[i].zoneId = z}

\* Position i holds the single most recently timestamped reading of its zone.
IsLatest(i) ==
  \A j \in ReadingsOf(store[i].zoneId) : j # i => store[j].timestamp < store[i].timestamp

\* The positions of the latest reading of each stored zone.
LatestReadings == {i \in 1..Len(store) : IsLatest(i)}

RECURSIVE SumOver(_, _)
SumOver(S, f) ==
  IF S = {} THEN 0
  ELSE LET i == CHOOSE x \in S : TRUE IN f[i] + SumOver(S \ {i}, f)

\* C3: a successful latest-per-zone answer holds exactly one row per distinct
\* zoneId in the store, and every row carries all the fields of the single
\* most recently timestamped reading of its zoneId.
C3_LatestPerZone ==
  (resp.ep = "zones" /\ resp.success) =>
    /\ \A z \in StoredZones :
         Cardinality({k \in 1..Len(resp.data) : resp.data[k].id = z}) = 1
    /\ \A k \in 1..Len(resp.data) :
         \E i \in LatestReadings :
           /\ resp.data[k].id = store[i].zoneId
           /\ resp.data[k].zoneName = store[i].zoneName
           /\ resp.data[k].population = store[i].population
           /\ resp.data[k].density = store[i].density
           /\ resp.data[k].cluster = store[i].cluster
           /\ resp.data[k].capacity = store[i].capacity
           /\ resp.data[k].status = store[i].status
           /\ resp.data[k].timestamp = store[i].timestamp

\* C3 witness: a latest-per-zone answer of two rows over a store that holds an
\* older reading with a different population for one of the zones.
C3_Witness ==
  /\ resp.ep = "zones" /\ resp.success /\ Len(resp.data) = 2
  /\ \E i, j \in 1..Len(store) :
       /\ store[i].zoneId = store[j].zoneId
       /\ store[i].timestamp < store[j].timestamp
       /\ store[i].population # store[j].population

\* The readings of a history answer are the store's readings of the asked
\* zone whose timestamp lies in [lo, hi], each once.
HistoryIsWindow(lo, hi) ==
  /\ \A k \in 1..Len(resp.data) :
       /\ resp.data[k].zoneId = resp.zoneId
       /\ resp.data[k].timestamp >= lo /\ resp.data[k].timestamp <= hi
       /\ \E i \in 1..Len(store) : store[i] = resp.data[k]
  /\ \A i \in 1..Len(store) :
       (store[i].zoneId = resp.zoneId /\ store[i].timestamp >= lo /\ store[i].timestamp <= hi)
         => Cardinality({k \in 1..Len(resp.data) : resp.data[k] = store[i]}) = 1
  /\ \A k \in 1..(Len(resp.data) - 1) : resp.data[k].timestamp < resp.data[k + 1].timestamp
  /\ resp.count = Len(resp.data)

\* C4 as stated: a successful history answer holds exactly the stored readings
\* of the zone with timestamp in [now - 15 min, now], now being the clock
\* reading the handler took for its cutoff.
C4_AsStated ==
  (resp.ep = "history" /\ resp.success) =>
    HistoryIsWindow(resp.cutoff, resp.cutoff + WindowMs)

\* C4 amended: a successful history answer holds exactly the readings of the
\* zone, as stored when the lookup runs, with timestamp >= now - 15 min (now
\* read before the lookup, no upper limit applied), none of another zone, in
\* strictly ascending timestamp order, with count their number; none is
\* stamped later than the clock at the time of the answer.
C4_HistorySince ==
  (resp.ep = "history" /\ resp.success) => HistoryIsWindow(resp.cutoff, now)

\* C4 witness: a history answer that holds the reading stamped exactly at the
\* cutoff and leaves out an older reading of the same zone.
C4_Witness ==
  /\ resp.ep = "history" /\ resp.success
  /\ \E k \in 1..Len(resp.data) : resp.data[k].timestamp = resp.cutoff
  /\ \E i \in ReadingsOf(resp.zoneId) : store[i].timestamp < resp.cutoff

\* C5 as stated: a history query for a zoneId that was never appended always
\* answers success with an empty sequence and count 0.
C5_AsStated ==
  (resp.ep = "history" /\ resp.zoneId \notin StoredZones) =>
    (resp.success /\ resp.code = 200 /\ resp.data = <<>> /\ resp.count = 0)

\* C5 amended: a history query for a zoneId that was never appended, whose
\* store lookup does not reject, answers success with an empty sequence and
\* count 0; a failure answer comes only from the lookup rejecting (code 500, as
\* for any zoneId); in both cases the request leaves the store unchanged.
C5_UnknownZoneEmpty ==
  /\ [](resp.ep = "history" /\ resp.zoneId \notin StoredZones
          => IF resp.success
             THEN resp.code = 200 /\ resp.data = <<>> /\ resp.count = 0
             ELSE resp.code = 500 /\ resp.data = <<>>)
  /\ [][(pending' # pending \/ resp' # resp) => store' = store]_vars

\* C5 witness: a successful, empty history answer for the unknown zoneId over
\* a store that holds readings of other zones inside the window.
C5_Witness ==
  /\ resp.ep = "history" /\ resp.zoneId = UnknownZone /\ resp.success
  /\ resp.data = <<>> /\ resp.count = 0
  /\ \E i \in 1..Len(store) : store[i].timestamp >= resp.cutoff

\* C6: a successful summary answer has totalPopulation = the sum of population
\* over the latest reading of each zone, activeZones = the number of those
\* with population > 0, overcrowdedZones = the number of those with status
\* 'overcrowded', and totalZones = the size of the registry.
C6_Summary ==
  (resp.ep = "summary" /\ resp.success) =>
    /\ resp.summary.totalPopulation =
         SumOver(LatestReadings, [i \in 1..Len(store) |-> store[i].population])
    /\ resp.summary.activeZones =
         Cardinality({i \in LatestReadings : store[i].population > 0})
    /\ resp.summary.overcrowdedZones =
         Cardinality({i \in LatestReadings : store[i].status = "overcrowded"})
    /\ resp.summary.totalZones = Len(Registry)

\* C6 witness: a summary answer over a store in which some zone has an older
\* reading with a different population than its latest.
C6_Witness ==
  /\ resp.ep = "summary" /\ resp.success /\ resp.summary.activeZones = 2
  /\ \E i, j \in 1..Len(store) :
       /\ store[i].zoneId = store[j].zoneId
       /\ store[i].timestamp < store[j].timestamp
       /\ store[i].population # store[j].population

\* The positions in sent of the events published by tick t.
TickEvents(t) == {i \in 1..Len(sent) : sent[i].kind = "tick" /\ sent[i].id = t}

\* Reading d is in the store.
Stored(d) == \E j \in 1..Len(store) : store[j] = d

\* Tick t published in this step.
Publishes(t) == ticks[t].pc # "done" /\ ticks'[t].pc = "done"

\* C7: a tick publishes only once its own append has settled (resolved or
\* rejected), nothing is written to the store in the publishing step, and the
\* snapshot published is exactly the sequence of readings handed to the
\* append: every stored reading of that tick is one of them, and all of them
\* are stored when the append resolved.
C7_AppendBeforePublish ==
  /\ [](\A i \in 1..Len(sent) : sent[i].kind = "tick" =>
          LET tk == ticks[sent[i].id] IN
          /\ tk.pc = "done"
          /\ sent[i].data = tk.data
          /\ \A j \in 1..Len(store) :
               store[j].timestamp = tk.data[1].timestamp
                 => \E k \in 1..Len(sent[i].data) : sent[i].data[k] = store[j]
          /\ tk.ok => \A k \in 1..Len(sent[i].data) : Stored(sent[i].data[k]))
  /\ [][\A t \in 1..Len(ticks) :
          Publishes(t) => (ticks[t].pc = "settled" /\ store' = store)]_vars

\* C7 witness: a tick whose append resolved has published while the append of
\* the next tick is still in flight.
C7_Witness ==
  /\ \E i \in 1..Len(sent) :
       /\ sent[i].kind = "tick" /\ sent[i].id = 1 /\ ticks[1].ok
       /\ \A k \in 1..Len(sent[i].data) : Stored(sent[i].data[k])
  /\ Len(ticks) = 2 /\ ticks[2].pc = "insert" /\ ticks[2].k = 1

\* C8: a tick whose append failed is never cut short: no callback ends
\* without emitting (its promise never rejects, so nothing stops the timer),
\* once the append has settled the callback can go on, and its next step
\* publishes the in-memory snapshot to the connected sockets.
C8_FailureContained ==
  /\ [](\A t \in 1..Len(ticks) :
          /\ ticks[t].pc # "aborted"
          /\ ticks[t].pc = "settled" => ENABLED Publish(t))
  /\ [][\A t \in 1..Len(ticks) :
          (ticks[t].pc = "settled" /\ ~ticks[t].ok /\ ticks'[t] # ticks[t]) =>
             /\ ticks'[t].pc = "done"
             /\ sent' = Append(sent, [kind |-> "tick", id |-> t, to |-> clients,
                                      data |-> ticks[t].data])]_vars

\* C8 witness: the first tick lost part of its append and has published its
\* whole snapshot to a connected socket; the second tick, fired one period
\* later, has stored and published its own.
C8_Witness ==
  /\ Len(ticks) = 2
  /\ ticks[1].pc = "done" /\ ~ticks[1].ok
  /\ \E k \in 1..Len(ticks[1].data) : ~Stored(ticks[1].data[k])
  /\ ticks[2].data[1].timestamp = ticks[1].data[1].timestamp + TickMs
  /\ \E i \in TickEvents(1) : sent[i].data = ticks[1].data /\ sent[i].to # {}
  /\ ticks[2].pc = "done" /\ ticks[2].ok /\ TickEvents(2) # {}

\* C9: an on-demand refresh delivers a snapshot computed at the request, with
\* the clock reading of the request, to the requesting socket and to no other;
\* the step writes nothing to the store and touches no tick.
C9_RefreshPrivate ==
  /\ [](\A i \in Refreshes :
          /\ sent[i].to = {sent[i].id}
          /\ \E rnd \in UniformDraws :
               sent[i].data = Snapshot(rnd, sent[i].data[1].timestamp))
  /\ [][Refreshes' # Refreshes =>
          /\ store' = store /\ ticks' = ticks /\ clients' = clients
          /\ Len(sent') = Len(sent) + 1
          /\ SubSeq(sent', 1, Len(sent)) = sent
          /\ sent'[Len(sent')].kind = "refresh"
          /\ sent'[Len(sent')].id \in clients
          /\ sent'[Len(sent')].data[1].timestamp = now]_vars

\* C9 witness: both sockets are connected and each has had a refresh of its
\* own while the append of a tick is half written.
C9_Witness ==
  /\ clients = Clients
  /\ \E i, j \in Refreshes :
       /\ sent[i].id = 1 /\ sent[i].to = {1}
       /\ sent[j].id = 2 /\ sent[j].to = {2}
  /\ \E t \in 1..Len(ticks) : ticks[t].pc = "insert" /\ ticks[t].k = 1
  /\ Len(store) = 1

\* C10: a tick has one publish event once it has published and none before;
\* it publishes at most once; the event goes to every socket connected at
\* that instant and to no other.
C10_PublishOnce ==
  /\ [](\A t \in 1..Len(ticks) :
          Cardinality(TickEvents(t)) = IF ticks[t].pc = "done" THEN 1 ELSE 0)
  /\ [][\A t \in 1..Len(ticks) :
          /\ ticks[t].pc = "done" => ticks'[t].pc = "done"
          /\ Publishes(t) =>
               /\ Len(sent') = Len(sent) + 1
               /\ sent'[Len(sent')].kind = "tick" /\ sent'[Len(sent')].id = t
               /\ sent'[Len(sent')].to = clients
               /\ clients' = clients]_vars

\* C10 witness: one tick has published to both sockets, the other to one
\* socket only, the second having disconnected in between.
C10_Witness ==
  \E i \in TickEvents(1), j \in TickEvents(2) :
    /\ sent[i].to = Clients
    /\ sent[j].to = {1}
    /\ i < j

\* The ticks between their simulate step and their publish step.
InFlight == {t \in 1..Len(ticks) : ticks[t].pc \in {"insert", "settled"}}

\* C11 as stated: the driver serializes the ticks, so at most one tick is
\* between its simulate step and its publish step at any time.
C11_AsStated == Cardinality(InFlight) <= 1

\* The number of readings of tick t in the store.
TickStored(t) ==
  Cardinality({j \in 1..Len(store) : store[j].timestamp = ticks[t].data[1].timestamp})

\* C12 as stated: a query that answers sees, of every tick, all of its
\* readings or none, and a failed append leaves none of its tick's readings
\* in the store.
C12_AsStated ==
  /\ (resp # NoResp /\ resp.success) =>
       \A t \in 1..Len(ticks) : TickStored(t) \in {0, Len(ticks[t].data)}
  /\ \A t \in 1..Len(ticks) :
       (ticks[t].pc \in {"settled", "done"} /\ ~ticks[t].ok) => TickStored(t) = 0

\* C13 as stated: the tick loop publishes in tick order with timestamps that
\* never decrease, and no socket receives a snapshot older than one it has
\* received before.
C13_AsStated ==
  \A i, j \in 1..Len(sent) :
    i < j =>
      /\ (sent[i].kind = "tick" /\ sent[j].kind = "tick") =>
           /\ sent[i].id < sent[j].id
           /\ sent[i].data[1].timestamp <= sent[j].data[1].timestamp
      /\ sent[i].to \cap sent[j].to # {} =>
           sent[i].data[1].timestamp <= sent[j].data[1].timestamp

\* Squared Euclidean distance between the points at positions i and j of
\* coordsIn.
Dist2(i, j) ==
  (coordsIn[i][1] - coordsIn[j][1]) * (coordsIn[i][1] - coordsIn[j][1])
    + (coordsIn[i][2] - coordsIn[j][2]) * (coordsIn[i][2] - coordsIn[j][2])

Points == 1..Len(coordsIn)

\* Within epsilon, the bound included, and a core point on that reading.
WithinEps(i, j) == Dist2(i, j) <= Epsilon * Epsilon
CoreIncl(c) == Cardinality({j \in Points : WithinEps(c, j)}) >= MinPoints

\* Closer than epsilon, and a core point on that reading.
CloserThanEps(i, j) == Dist2(i, j) < Epsilon * Epsilon
CoreStrict(c) == Cardinality({j \in Points : CloserThanEps(c, j)}) >= MinPoints

\* The nine-zone scenario: the close pair at positions a and b shares a
\* non-zero label and the seven other zones have label 0.
PairAlone(a, b) ==
  /\ clOut.labels[a] = clOut.labels[b] /\ clOut.labels[a] # 0
  /\ \A k \in Points \ {a, b} : clOut.labels[k] = 0

\* C14 as stated, a neighbourhood being the points at distance <= epsilon:
\* two zones within epsilon of a common core point have the same non-zero
\* label, and a zone that is no core point and within epsilon of none has
\* label 0.
C14_AsStated ==
  clOut.ran =>
    /\ \A a, b, c \in Points :
         (CoreIncl(c) /\ WithinEps(a, c) /\ WithinEps(b, c))
           => (clOut.labels[a] = clOut.labels[b] /\ clOut.labels[a] # 0)
    /\ \A a \in Points :
         (~CoreIncl(a) /\ \A c \in Points : CoreIncl(c) => ~WithinEps(a, c))
           => clOut.labels[a] = 0

\* C14 amended: with epsilon 30 and minPoints 2, two zones closer than epsilon
\* to a common core point (a point with at least minPoints points, itself
\* included, closer than epsilon) have the same non-zero label; a zone that is
\* no core point and closer than epsilon to none has label 0; in the nine-zone
\* scenario the close pair shares a label and the seven others have label 0.
C14_CommonCore ==
  clOut.ran =>
    /\ \A a, b, c \in Points :
         (CoreStrict(c) /\ CloserThanEps(a, c) /\ CloserThanEps(b, c))
           => (clOut.labels[a] = clOut.labels[b] /\ clOut.labels[a] # 0)
    /\ \A a \in Points :
         (~CoreStrict(a) /\ \A c \in Points : CoreStrict(c) => ~CloserThanEps(a, c))
           => clOut.labels[a] = 0
    /\ coordsIn = NineZones => PairAlone(1, 2)
    /\ coordsIn = Swapped(NineZones, 1, 9) => PairAlone(1, 9)
    /\ coordsIn = Swapped(NineZones, 4, 7) => PairAlone(4, 7)

\* C14 witness: the nine-zone scenario has run, the close pair at positions 4
\* and 7 has label 1 and the seven others have label 0.
C14_Witness ==
  /\ clOut.ran /\ coordsIn = Swapped(NineZones, 4, 7)
  /\ clOut.labels[4] = 1 /\ clOut.labels[7] = 1
  /\ \A k \in Points \ {4, 7} : clOut.labels[k] = 0

\* The 1-based positions of the clusters returned that contain index idx.
Containing(idx) ==
  {i \in 1..Len(clOut.clusters) :
     \E k \in 1..Len(clOut.clusters[i]) : clOut.clusters[i][k] = idx}

\* C15: every zone has one label, a natural number: 0 iff no cluster returned
\* by the clusterer contains the zone's index, otherwise the 1-based position
\* of the one cluster that contains it; -1 is never a label.
C15_LabelOfCluster ==
  clOut.ran =>
    /\ Len(clOut.labels) = Len(coordsIn)
    /\ \A a \in Points :
         /\ clOut.labels[a] \in Nat
         /\ clOut.labels[a] = 0 <=> Containing(a - 1) = {}
         /\ Containing(a - 1) # {} => Containing(a - 1) = {clOut.labels[a]}

\* C15 witness: a run with two clusters and a zone in neither: labels 1, 2
\* and 0 all occur.
C15_Witness ==
  /\ clOut.ran /\ Len(clOut.clusters) = 2
  /\ \E a, b, c \in Points :
       clOut.labels[a] = 1 /\ clOut.labels[b] = 2 /\ clOut.labels[c] = 0

\* The positions linked to a position of S by a chain of pairs closer than
\* epsilon.
RECURSIVE Linked(_)
Linked(S) ==
  LET S2 == S \cup {j \in Points : \E i \in S : CloserThanEps(i, j)}
  IN  IF S2 = S THEN S ELSE Linked(S2)

\* The lowest position linked to a.
Lowest(a) == CHOOSE m \in Linked({a}) : \A k \in Linked({a}) : m <= k

\* The label fixed by input order: 0 for a zone linked to no other, otherwise
\* the rank of its group among the groups of two or more, ranked by lowest
\* position.
OrderLabel(a) ==
  IF Linked({a}) = {a} THEN 0
  ELSE Cardinality({Lowest(b) : b \in {x \in Points : Linked({x}) # {x} /\ Lowest(x) <= Lowest(a)}})

\* C16: the labels are a function of the coordinate sequence alone, fixed by
\* input index order: each zone's label is the rank of its group counted in
\* the order of the groups' lowest-index members (0 for a zone on its own),
\* and the clusters are returned in that order, each starting with its
\* lowest-index member.
C16_LabelsByInputOrder ==
  clOut.ran =>
    /\ \A a \in Points : clOut.labels[a] = OrderLabel(a)
    /\ \A i \in 1..Len(clOut.clusters) :
         /\ \A k \in 1..Len(clOut.clusters[i]) : clOut.clusters[i][1] <= clOut.clusters[i][k]
         /\ i > 1 => clOut.clusters[i - 1][1] < clOut.clusters[i][1]

\* C16 witness: a zone on its own first, then two groups whose members
\* alternate in the input: labels 0, 1, 2, 1, 2.
C16_Witness ==
  /\ clOut.ran /\ clOut.labels = <<0, 1, 2, 1, 2>>

\* C17: the store is append-only: every step keeps the readings already
\* stored, unchanged and in place; a step that changes the store adds exactly
\* the next reading of a tick whose append is pending and is no step of a
\* query, a refresh or a connection; no reading is stored twice.
C17_AppendOnly ==
  /\ [](\A i, j \in 1..Len(store) : i # j => store[i] # store[j])
  /\ [][/\ Len(store') >= Len(store)
        /\ SubSeq(store', 1, Len(store)) = store
        /\ store' # store =>
             /\ \E t \in 1..Len(ticks) :
                  /\ ticks[t].pc = "insert"
                  /\ ticks'[t].k = ticks[t].k + 1
                  /\ store' = Append(store, ticks[t].data[ticks[t].k + 1])
             /\ sent' = sent /\ clients' = clients
             /\ pending' = pending /\ resp' = resp]_vars

\* C17 witness: after a refresh, a disconnection and an answered query the
\* store holds both readings of the tick.
C17_Witness ==
  /\ Len(store) = 2
  /\ Refreshes # {}
  /\ clients = {}
  /\ resp.ep = "zones" /\ resp.success /\ Len(resp.data) = 2

\* C18 as stated, the stop being the teardown of the store connection: from
\* then on no tick starts and no append of a tick writes to the store.
C18_AsStated ==
  [][dbDown => (Len(ticks') = Len(ticks) /\ store' = store)]_vars

\* C19: a tick whose append has settled can publish whatever the sockets
\* have or have not taken, and its publishing step completes the tick and
\* hands nothing over itself; a connected socket with an event queued can
\* take it whatever the other sockets do; connections, closes and deliveries
\* leave the ticks, the timer and what was emitted untouched.
C19_PublishNeverWaits ==
  /\ [](\A t \in 1..Len(ticks) : ticks[t].pc = "settled" => ENABLED Publish(t))
  /\ [](\A c \in clients : Queue(c) # {} => ENABLED Deliver(c))
  /\ [][\A t \in 1..Len(ticks) :
          Publishes(t) => (inbox' = inbox /\ sent'[Len(sent')].to = clients)]_vars
  /\ [][(clients' # clients \/ inbox' # inbox) =>
          (ticks' = ticks /\ sent' = sent /\ lastFire' = lastFire /\ store' = store)]_vars

\* C19 witness: both ticks have published; socket 2 has got the first
\* snapshot, socket 1, to which it was also emitted, has taken nothing yet.
C19_Witness ==
  \E i \in TickEvents(1), j \in TickEvents(2) :
    /\ i < j
    /\ sent[i].to = Clients /\ 1 \in sent[j].to
    /\ i \in inbox[2].got
    /\ inbox[1] = [got |-> {}, lost |-> {}]
    /\ ticks[1].pc = "done" /\ ticks[2].pc = "done"

\* C20 as stated: a successful history answer to a caller that asked for d
\* minutes holds exactly the stored readings of the zone with timestamp
\* >= now - d, now being the clock reading of the handler.
C20_AsStated ==
  (resp.ep = "history" /\ resp.success) =>
    HistoryIsWindow(resp.at - resp.minutes * MsPerMinute, now)

\* C20 amended: whatever duration the caller asks for, a successful history
\* answer holds exactly the stored readings of the zone with timestamp
\* >= now - 15 minutes, now being the clock reading of the handler; a reading
\* older than that is left out for a caller that asked for more, and a
\* reading inside the 15 minutes is returned to a caller that asked for less.
C20_FixedWindow ==
  (resp.ep = "history" /\ resp.success) =>
    /\ resp.cutoff = resp.at - DefaultMinutes * MsPerMinute
    /\ HistoryIsWindow(resp.at - DefaultMinutes * MsPerMinute, now)
    /\ \A i \in ReadingsOf(resp.zoneId) :
         (\E k \in 1..Len(resp.data) : resp.data[k] = store[i])
           <=> store[i].timestamp >= resp.at - DefaultMinutes * MsPerMinute

\* C20 witness: a caller that asked for 30 minutes gets the reading stamped
\* 15 minutes before the request and not the older one; both are less than 30
\* minutes old.
C20_Witness ==
  /\ resp.ep = "history" /\ resp.success /\ resp.minutes = 30
  /\ Len(resp.data) = 1
  /\ resp.data[1].timestamp = resp.at - DefaultMinutes * MsPerMinute
  /\ \E i \in ReadingsOf(resp.zoneId) :
       /\ store[i].timestamp < resp.data[1].timestamp
       /\ store[i].timestamp >= resp.at - 30 * MsPerMinute

\* All the coordinates of coordsIn are the same point.
AllIdentical == \A a, b \in Points : coordsIn[a] = coordsIn[b]

\* C21: the stages complete on the edge inputs: with 0 or 1 input point the
\* clusterer returns no clusters and every reading gets label 0; with two or
\* more identical coordinates the run completes with one label per zone (all
\* zones in the one cluster returned), and a simulated pass in which every
\* zone draws the same coordinates yields one reading per registry zone.
C21_EdgeInputs ==
  clOut.ran =>
    /\ Len(clOut.labels) = Len(coordsIn)
    /\ Len(coordsIn) <= 1 =>
         /\ clOut.clusters = <<>>
         /\ \A a \in Points : clOut.labels[a] = 0
    /\ (Len(coordsIn) >= 2 /\ AllIdentical) =>
         /\ Len(clOut.clusters) = 1
         /\ \A a \in Points : clOut.labels[a] = 1
    /\ \A rnd \in UniformDraws :
         LET readings == Snapshot(rnd, 0)
         IN  /\ Len(readings) = Len(Registry)
             /\ \A i \in 1..Len(readings) :
                  /\ readings[i].zoneId = Registry[i].id
                  /\ readings[i].cluster \in Nat
                  /\ readings[i].status \in {"normal", "moderate", "overcrowded"}

\* C21 witness: the clusterer has run on a single point, returned no cluster
\* and the one reading has label 0.
C21_Witness ==
  /\ clOut.ran /\ Len(coordsIn) = 1
  /\ clOut.clusters = <<>> /\ clOut.labels = <<0>>

\* p = floor(capacity * 0.3 + r * capacity * 0.5) for r = k / 100, as the
\* one natural number p with p <= capacity * (60 + k) / 200 < p + 1.
IsFloorOfFormula(p, capacity, k) ==
  /\ 200 * p <= capacity * (60 + k)
  /\ capacity * (60 + k) < 200 * (p + 1)

Neighbourhood(a) ==
  LET ids == regionQuery(coordsIn, a - 1)
  IN  {ids[k] + 1 : k \in 1..Len(ids)}

\* C23 as stated: a point's neighbourhood contains the point itself and every
\* point at distance <= epsilon, and two zones at distance exactly 30 are in
\* the same cluster.
C23_AsStated ==
  clOut.ran =>
    \A a, b \in Points :
      /\ WithinEps(a, b) => b \in Neighbourhood(a)
      /\ (a # b /\ Dist2(a, b) = Epsilon * Epsilon)
           => (clOut.labels[a] = clOut.labels[b] /\ clOut.labels[a] # 0)

\* C23 amended: a point's neighbourhood is the point itself and every point
\* at distance < epsilon; two zones at distance less than 30 are neighbours
\* and (with minPoints 2) in the same cluster; two zones at distance exactly
\* 30 are not neighbours.
C23_StrictNeighbourhood ==
  clOut.ran =>
    \A a \in Points :
      /\ a \in Neighbourhood(a)
      /\ Neighbourhood(a) = {b \in Points : CloserThanEps(a, b)}
      /\ \A b \in Points :
           /\ (a # b /\ CloserThanEps(a, b))
                => (clOut.labels[a] = clOut.labels[b] /\ clOut.labels[a] # 0)
           /\ Dist2(a, b) = Epsilon * Epsilon => b \notin Neighbourhood(a)

\* C23 witness: two zones exactly 30 apart and nothing else: neither is in
\* the other's neighbourhood and both have label 0.
C23_Witness ==
  /\ clOut.ran /\ coordsIn = <<<<0, 0>>, <<30, 0>>>>
  /\ Neighbourhood(1) = {1} /\ Neighbourhood(2) = {2}
  /\ clOut.labels = <<0, 0>>

\* C24 as stated: the health check's response tells the state of the store
\* connection: the body answered differs from the body the handler would
\* answer at the same instant with the connection in the other state.
C24_AsStated ==
  [][(resp = NoResp /\ resp'.ep = "health")
       => resp' # healthResponse(now, ~dbDown)]_vars

\* The population and capacity of the README's example reading (zone AB1).
ExamplePopulation == 4625
ExampleCapacity == 5880

\* Some random number r = k / 10000 makes the simulator yield population p
\* for a zone of the given capacity.
CanSimulate(p, capacity) ==
  \E k \in 0..9999 : (capacity * (6000 + k)) \div 20000 = p

AllReadings ==
  {ticks[t].data[i] : t \in 1..Len(ticks), i \in 1..Len(Registry)}
    \cup {sent[k].data[i] : k \in 1..Len(sent), i \in 1..Len(Registry)}
    \cup {store[j] : j \in 1..Len(store)}

\* What holds of the readings and the summary on either reading of the upper
\* bound: the lower bound on the population, no status 'overcrowded', and
\* overcrowdedZones 0 in the summary of the store and in every answer.
NeverOvercrowded ==
  /\ \A r \in AllReadings :
       /\ (3 * r.capacity) \div 10 <= r.population
       /\ r.status # "overcrowded"
  /\ Summarize(SummaryRows(store)).overcrowdedZones = 0
  /\ (resp.ep = "summary" /\ resp.code = 200) => resp.summary.overcrowdedZones = 0

\* C26 as stated: every reading has floor(0.3 * capacity) <= population <
\* 0.8 * capacity, none has status 'overcrowded', every density is below 96
\* and the summary's overcrowdedZones is 0.
C26_AsStated ==
  /\ NeverOvercrowded
  /\ \A r \in AllReadings :
       /\ 10 * r.population < 8 * r.capacity
       /\ r.density < 96

\* C26 amended: every reading has floor(0.3 * capacity) <= population <=
\* 0.8 * capacity, none has status 'overcrowded', every density is at most 96
\* and the summary's overcrowdedZones is 0.
C26_PopulationRange ==
  /\ NeverOvercrowded
  /\ \A r \in AllReadings :
       /\ 10 * r.population <= 8 * r.capacity
       /\ r.density <= 96

\* C26 witness: a stored reading at exactly 0.8 * capacity with density 96
\* and status 'moderate', and a summary answered with overcrowdedZones 0 that
\* counts it.
C26_Witness ==
  /\ \E j \in 1..Len(store) :
       /\ 10 * store[j].population = 8 * store[j].capacity
       /\ store[j].density = 96
       /\ store[j].status = "moderate"
  /\ resp.ep = "summary" /\ resp.code = 200
  /\ resp.summary.overcrowdedZones = 0
  /\ resp.summary.totalPopulation > 0

\* The non-zero labels in use.
LabelsInUse == {clOut.labels[a] : a \in Points} \ {0}

\* What C27 says of the non-zero labels: each is shared by at least 2 zones,
\* they are exactly 1..k, and k <= floor(n / 2) (k <= 4 for nine zones).
LabelShape ==
  LET k == Cardinality(LabelsInUse)
  IN  /\ \A l \in LabelsInUse : Cardinality({a \in Points : clOut.labels[a] = l}) >= 2
      /\ LabelsInUse = 1..k
      /\ k <= Len(coordsIn) \div 2
      /\ Len(coordsIn) = 9 => k <= 4

\* C27 as stated, a neighbourhood being the points at distance <= epsilon:
\* the non-zero labels have the shape above, and a zone has label 0 exactly
\* when no other zone is within epsilon of it.
C27_AsStated ==
  clOut.ran =>
    /\ LabelShape
    /\ \A a \in Points :
         clOut.labels[a] = 0 <=> \A b \in Points \ {a} : ~WithinEps(a, b)

\* C27 amended: the non-zero labels have the shape above, and a zone has
\* label 0 exactly when no other zone is closer than epsilon to it.
C27_LabelShape ==
  clOut.ran =>
    /\ LabelShape
    /\ \A a \in Points :
         clOut.labels[a] = 0 <=> \A b \in Points \ {a} : ~CloserThanEps(a, b)

\* C27 witness: nine zones in four close pairs and one zone on its own: the
\* labels 1..4 are each shared by two zones and the ninth zone has label 0.
C27_Witness ==
  /\ clOut.ran /\ coordsIn = FourPairs
  /\ clOut.labels = <<1, 1, 2, 2, 3, 3, 4, 4, 0>>

\* C28: every reading applyDBSCAN produces satisfies the Zone schema
\* (zoneId, zoneName, population, density, cluster and capacity present,
\* population >= 0, density >= 0, status one of normal, moderate,
\* overcrowded), so does every stored reading, and the append of a tick is
\* never held back by validation: while documents of a batch remain to be
\* written, the next write can happen.
C28_SchemaValid ==
  /\ \A t \in 1..Len(ticks) :
       /\ ValidBatch(ticks[t].data)
       /\ (ticks[t].pc = "insert" /\ ticks[t].k < Len(ticks[t].data))
            => ENABLED DbInsert(t)
  /\ ValidBatch(store)

\* C28 witness: a tick's batch was written in full and acknowledged, and a
\* reading with status 'moderate' is in the store.
C28_Witness ==
  /\ \E t \in 1..Len(ticks) : ticks[t].ok /\ ticks[t].pc = "done"
  /\ Len(store) >= Len(Registry)
  /\ \E j \in 1..Len(store) : store[j].status = "moderate" /\ Validates(store[j])

\* C29: provided every append settles, every tick that starts publishes its
\* snapshot in the end, and no tick ends without a publish: a callback never
\* stops short, and a finished tick has its event among the events sent.
C29_EveryTickPublishes ==
  /\ \A t \in 1..MaxTicks :
       (Len(ticks) >= t) ~> (Len(ticks) >= t /\ ticks[t].pc = "done")
  /\ [](\A t \in 1..Len(ticks) :
          /\ ticks[t].pc # "aborted"
          /\ ticks[t].pc = "done" => TickEvents(t) # {})

\* C29 witness: the second tick's append was rejected and the tick has
\* published its snapshot all the same, after the first tick did.
C29_Witness ==
  /\ Len(ticks) = 2
  /\ ticks[1].pc = "done" /\ ticks[2].pc = "done" /\ ~ticks[2].ok
  /\ TickEvents(1) # {} /\ TickEvents(2) # {}

\* The total population of payload d, summed over its positions.
PayloadTotal(d) == SumOver(1..Len(d), [i \in 1..Len(d) |-> d[i].population])

\* The number of entries the trend buffer holds after n payloads.
TrendLength(n) == IF n <= TrendLimit THEN n ELSE TrendLimit

\* C30: the trend buffer is a bounded FIFO: after any sequence of received
\* payloads it holds at most 12 entries, which are the total populations of
\* the most recent (up to 12) payloads in arrival order; a payload that
\* arrives at a full buffer drops the oldest entry and goes to the end.
C30_TrendBuffer ==
  /\ [](LET n == Len(received)
            m == Len(dashboard.trendData)
        IN  /\ m <= TrendLimit
            /\ m = TrendLength(n)
            /\ \A i \in 1..m :
                 dashboard.trendData[i].population = PayloadTotal(received[n - m + i]))
  /\ [][(Len(dashboard.trendData) = TrendLimit /\ received' # received)
          => /\ Len(dashboard.trendData') = TrendLimit
             /\ \A i \in 1..(TrendLimit - 1) :
                  dashboard.trendData'[i] = dashboard.trendData[i + 1]
             /\ dashboard.trendData'[TrendLimit].population
                  = PayloadTotal(received'[Len(received')])]_vars

\* C30 witness: a 13th payload has arrived: the buffer holds 12 entries, the
\* first of which is the second payload's total, which differs from the
\* first payload's.
C30_Witness ==
  /\ Len(received) = TrendLimit + 1
  /\ Len(dashboard.trendData) = TrendLimit
  /\ dashboard.trendData[1].population = PayloadTotal(received[2])
  /\ PayloadTotal(received[1]) # PayloadTotal(received[2])

====
